---- MODULE Spec2Model ----
(***************************************************************************)
(* Model of the LinkedIn profile enrichment job                            *)
(* (src/src/enrich_linkedin_profiles.py and src/src/lib/utils/             *)
(* linkedin_profile_utils.py) over the two tables it reads and writes:     *)
(* luma.guests (read only) and luma.linkedin_profiles (upserted).          *)
(*                                                                         *)
(* Strings are sequences of one-character strings, so that                 *)
(* normalize_linkedin_handle is computed as the code computes it.          *)
(* Timestamps are epoch milliseconds counted from the start of the         *)
(* observation; SQL NULL / Python None is NULL_TS for timestamps, "NULL"   *)
(* for text columns and NullHandle for a guest's handle.                   *)
(***************************************************************************)
EXTENDS Integers, Sequences, FiniteSets, TLC

(* ------------------------------ bounds -------------------------------- *)

\* The clock is observed at the instants of ClockValues, the last of them
\* LastTick ticks after the start.
LastTick == 17
\* Largest --count (batch_size) an invocation is started with.
MaxLimit == 2
\* Longest profile list the scraper returns for one call.
MaxProfiles == 2
\* How many times upstream may change a guest's linkedin_handle.
MaxHandleChanges == 1

\* Concurrent invocations of the job and the guests of luma.guests.
Runs == {"r1", "r2"}
Subjects == {"g1", "g2", "g3"}

(* ------------------------- program constants -------------------------- *)

\* lp.retry_count < 3
MaxRetryCount == 3
\* (new_retry_count ** 2) * 5
BackoffBaseMinutes == 5
\* backoff_minutes * 60 * 1000
MsPerMinute == 60 * 1000
\* The clock granularity of the model: one base backoff period.
TickMs == BackoffBaseMinutes * MsPerMinute

NULL_TS == 0 - 1
NullHandle == <<"NULL">>
NoKey == <<"NULL", NullHandle>>
MissingMessage == "Profile not returned by Apify API"

(* ------------------------------ strings ------------------------------- *)

HttpsWww == <<"h","t","t","p","s",":","/","/","w","w","w",".","l","i","n","k","e","d","i","n",".","c","o","m">>
HttpsBare == <<"h","t","t","p","s",":","/","/","l","i","n","k","e","d","i","n",".","c","o","m">>
HttpWww == <<"h","t","t","p",":","/","/","w","w","w",".","l","i","n","k","e","d","i","n",".","c","o","m">>
InSlash == <<"i","n","/">>

UpperChars == <<"A","B","C","D","E","F","G","H","I","J","K","L","M","N","O","P","Q","R","S","T","U","V","W","X","Y","Z">>
LowerChars == <<"a","b","c","d","e","f","g","h","i","j","k","l","m","n","o","p","q","r","s","t","u","v","w","x","y","z">>

\* str.lower() on one character
LowerChar(c) ==
    IF \E i \in 1..Len(UpperChars) : UpperChars[i] = c
    THEN LowerChars[CHOOSE i \in 1..Len(UpperChars) : UpperChars[i] = c]
    ELSE c

\* str.lower()
Lower(s) == [i \in 1..Len(s) |-> LowerChar(s[i])]

\* str.startswith(p)
StartsWith(s, p) == Len(s) >= Len(p) /\ SubSeq(s, 1, Len(p)) = p

\* str.replace(old, ''): leftmost non-overlapping occurrences removed
RECURSIVE Remove(_, _)
Remove(s, old) ==
    IF s = <<>> THEN <<>>
    ELSE IF StartsWith(s, old) THEN Remove(SubSeq(s, Len(old) + 1, Len(s)), old)
    ELSE <<Head(s)>> \o Remove(Tail(s), old)

\* str.lstrip('/') and str.rstrip('/')
RECURSIVE LStripSlash(_)
LStripSlash(s) == IF s # <<>> /\ Head(s) = "/" THEN LStripSlash(Tail(s)) ELSE s
RECURSIVE RStripSlash(_)
RStripSlash(s) ==
    IF s # <<>> /\ s[Len(s)] = "/" THEN RStripSlash(SubSeq(s, 1, Len(s) - 1)) ELSE s
StripSlash(s) == RStripSlash(LStripSlash(s))

\* The "in/" prefix, the leading slash and lower() of
\* normalize_linkedin_handle, on the handle left by strip('/')
WithInPrefix(handle) ==
    Lower(<<"/">> \o (IF StartsWith(handle, InSlash) THEN handle ELSE InSlash \o handle))

\* Each intermediate value of the handle is bound once, as the local variable
\* of the function is.
normalize_linkedin_handle(linkedin_url_or_handle) ==
    CHOOSE normalized \in
        {WithInPrefix(stripped) :
            stripped \in {StripSlash(replaced) :
                replaced \in {Remove(Remove(Remove(linkedin_url_or_handle, HttpsWww),
                                            HttpsBare), HttpWww)}}} : TRUE

(* -------------------------------- data -------------------------------- *)

\* Spellings of linkedin_handle found in luma.guests: two that normalize to
\* the same canonical handle and one that does not.
HandleA == <<"/","i","n","/","a">>
HandleAVariant == <<"/","i","n","/","A","/">>
HandleB == <<"/","i","n","/","b">>
HandlePool == {HandleA, HandleAVariant, HandleB}

\* luma.guests.guest_name
GuestName(s) == <<"name", s>>

\* Profile dictionaries the scraper can return. publicIdentifier <<>> is a
\* profile without the key (profile.get('publicIdentifier', '') is '').
ProfileA == [publicIdentifier |-> <<"a">>, fullName |-> "Ann"]
ProfileAUpper == [publicIdentifier |-> <<"A">>, fullName |-> "Anna"]
ProfileNoId == [publicIdentifier |-> <<>>, fullName |-> "Nobody"]
ProfilePool == {ProfileA, ProfileAUpper, ProfileNoId}
\* Python None, the result of dict.get on a missing key
NoneProfile == [publicIdentifier |-> <<>>, fullName |-> "NULL"]

\* Every list of at most MaxProfiles profiles
ProfileLists == UNION {[1..n -> ProfilePool] : n \in 0..MaxProfiles}

\* Host prefixes a LinkedIn URL is written with: the three the code removes,
\* the http scheme on the bare domain, the two domains without a scheme, and
\* the first with its initial capitalised.
HttpBare == <<"h","t","t","p",":","/","/","l","i","n","k","e","d","i","n",".","c","o","m">>
WwwDomain == <<"w","w","w",".","l","i","n","k","e","d","i","n",".","c","o","m">>
BareDomain == <<"l","i","n","k","e","d","i","n",".","c","o","m">>
HttpsWwwCapital == <<"H">> \o Tail(HttpsWww)
HostPrefixes == {<<>>, HttpsWww, HttpsBare, HttpWww, HttpBare, WwwDomain, BareDomain,
                 HttpsWwwCapital}

\* The handle proper, in several letter cases; <<>> is a URL without a path.
HandleNames == {<<>>, <<"a">>, <<"A">>, <<"f","o">>, <<"F","o">>}

\* How an argument of normalize_linkedin_handle is spelt: host prefix, leading
\* slash, path prefix, name, trailing slash. A host prefix is followed by a
\* slash.
Spellings ==
    {sp \in [host : HostPrefixes, lead : {<<>>, <<"/">>}, path : {<<>>, InSlash},
             name : HandleNames, trail : {<<>>, <<"/">>}] :
        sp.host # <<>> => sp.lead = <<"/">>}

\* The string a spelling stands for
Spelt(sp) == sp.host \o sp.lead \o sp.path \o sp.name \o sp.trail

\* No call observed: the values of the call variables in the job's own runs
NoSpelling == [host |-> <<>>, lead |-> <<>>, path |-> <<>>, name |-> <<>>, trail |-> <<>>]
NotCalled == <<"not called">>

\* The observed instants, in ticks. With e(0) = 0 and e(n) = e(n-1) + n*n + 1
\* the first tick at which a guest that failed n times, each time as early as
\* the selector allows, is eligible again: the ticks e(n) - 1 (the clock is
\* exactly next_retry_after) and e(n), for n = 1, 2, 3, and every tick from
\* e(3) - 1 to LastTick.
TickMarks == {0, 1, 2, 6, 7} \cup 16..LastTick
ClockValues == {k * TickMs : k \in TickMarks}

Min(a, b) == IF a < b THEN a ELSE b

\* dict[k] = v
Put(f, k, v) == [x \in (DOMAIN f) \cup {k} |-> IF x = k THEN v ELSE f[x]]

(* ------------------------------- state -------------------------------- *)

VARIABLES
    guests,                  \* luma.guests: luma_guest_api_id -> linkedin_handle
    handle_changes,          \* number of upstream edits of luma.guests so far
    rows,                    \* luma.linkedin_profiles: <<id, handle>> -> columns
    now,                     \* time.time() * 1000
    pc,                      \* each invocation's position in enrich_linkedin_profiles
    pending_guests,          \* locals of enrich_linkedin_profiles, per invocation
    profile_lookup,
    guests_with_profiles,
    guests_without_profiles,
    all_records,
    success,
    spelling,                \* a call of normalize_linkedin_handle: how its argument is spelt
    normal_form,             \* ... its result
    normal_form_again,       \* ... and the result of normalizing the result
    profiles_arg,            \* a call of create_lookup_from_apify_profiles: its argument
    index_result             \* ... and, once it has returned, <<its result>>

vars == <<guests, handle_changes, rows, now, pc, pending_guests, profile_lookup,
          guests_with_profiles, guests_without_profiles, all_records, success,
          spelling, normal_form, normal_form_again, profiles_arg, index_result>>

\* The calls of the pure functions observed on their own
calls == <<spelling, normal_form, normal_form_again, profiles_arg, index_result>>

locals == <<pending_guests, profile_lookup, guests_with_profiles,
            guests_without_profiles, all_records, success>>

(* ------------------------------ selector ------------------------------ *)

\* The key of a record or candidate: the conflict columns of the upsert.
KeyOf(x) == <<x.luma_guest_api_id, x.linkedin_handle>>

\* FROM luma.guests g LEFT JOIN luma.linkedin_profiles lp
\*   ON lp.luma_guest_api_id = g.luma_guest_api_id
JoinRows(gs, rs) ==
    UNION {IF \E k \in DOMAIN rs : k[1] = s
           THEN {[g |-> s, lp |-> k] : k \in {x \in DOMAIN rs : x[1] = s}}
           ELSE {[g |-> s, lp |-> NoKey]} : s \in Subjects}

\* Where without `lp.profile_found = FALSE`
WhereIgnoringFound(j, gs, rs, current_timestamp) ==
    /\ gs[j.g] # NullHandle
    /\ \/ j.lp = NoKey
       \/ /\ rs[j.lp].retry_count < MaxRetryCount
          /\ \/ rs[j.lp].next_retry_after = NULL_TS
             \/ rs[j.lp].next_retry_after < current_timestamp

\* Where without `lp.retry_count < 3`
WhereNoCeiling(j, gs, rs, current_timestamp) ==
    /\ gs[j.g] # NullHandle
    /\ \/ j.lp = NoKey
       \/ /\ rs[j.lp].profile_found = FALSE
          /\ \/ rs[j.lp].next_retry_after = NULL_TS
             \/ rs[j.lp].next_retry_after < current_timestamp

\* The WHERE clause, for one row of the join
Where(j, gs, rs, current_timestamp) ==
    /\ gs[j.g] # NullHandle
    /\ \/ j.lp = NoKey
       \/ /\ rs[j.lp].profile_found = FALSE
          /\ rs[j.lp].retry_count < MaxRetryCount
          /\ \/ rs[j.lp].next_retry_after = NULL_TS
             \/ rs[j.lp].next_retry_after < current_timestamp

\* COALESCE(lp.retry_count, 0)
CoalesceRetryCount(j, rs) == IF j.lp = NoKey THEN 0 ELSE rs[j.lp].retry_count

\* lp.last_retry_at
LastRetryAt(j, rs) == IF j.lp = NoKey THEN NULL_TS ELSE rs[j.lp].last_retry_at

\* OrderedBefore for ORDER BY COALESCE(lp.retry_count, 0) DESC
OrderedBeforeDescending(a, b, rs) ==
    \/ CoalesceRetryCount(a, rs) > CoalesceRetryCount(b, rs)
    \/ /\ CoalesceRetryCount(a, rs) = CoalesceRetryCount(b, rs)
       /\ \/ LastRetryAt(a, rs) = NULL_TS
          \/ LastRetryAt(b, rs) # NULL_TS /\ LastRetryAt(a, rs) <= LastRetryAt(b, rs)

\* ORDER BY COALESCE(lp.retry_count, 0) ASC, lp.last_retry_at ASC NULLS FIRST:
\* a may come before b
OrderedBefore(a, b, rs) ==
    \/ CoalesceRetryCount(a, rs) < CoalesceRetryCount(b, rs)
    \/ /\ CoalesceRetryCount(a, rs) = CoalesceRetryCount(b, rs)
       /\ \/ LastRetryAt(a, rs) = NULL_TS
          \/ LastRetryAt(b, rs) # NULL_TS /\ LastRetryAt(a, rs) <= LastRetryAt(b, rs)

\* The SELECT list, for one row of the join
Candidate(j, gs, rs) ==
    [luma_guest_api_id |-> j.g,
     guest_name |-> GuestName(j.g),
     linkedin_handle |-> gs[j.g],
     retry_count |-> CoalesceRetryCount(j, rs)]

\* Every order the database may return the qualifying join rows in: rows
\* that tie on the ORDER BY keys come in any order.
SortedJoinRows(gs, rs, current_timestamp) ==
    LET Q == {j \in JoinRows(gs, rs) : Where(j, gs, rs, current_timestamp)}
        n == Cardinality(Q)
    IN  {p \in [1..n -> Q] :
            /\ \A i, k \in 1..n : i # k => p[i] # p[k]
            /\ \A i \in 1..(n - 1) : OrderedBefore(p[i], p[i + 1], rs)}

\* The result sets the query of fetch_guests_pending_for_enrichment can
\* return, as the join rows behind each returned tuple (LIMIT applied)
SelectJoinRows(gs, rs, current_timestamp, limit) ==
    {SubSeq(p, 1, Min(limit, Len(p))) : p \in SortedJoinRows(gs, rs, current_timestamp)}

fetch_guests_pending_for_enrichment(gs, rs, current_timestamp, limit) ==
    {[i \in 1..Len(p) |-> Candidate(p[i], gs, rs)] :
        p \in SelectJoinRows(gs, rs, current_timestamp, limit)}

(* ------------------------ matcher / partitioner ----------------------- *)

Front(q) == SubSeq(q, 1, Len(q) - 1)
Last(q) == q[Len(q)]

\* create_lookup_from_apify_profiles that keeps the first profile of a handle
\* (`if normalized_handle not in handle_to_profile`)
RECURSIVE create_lookup_keeping_first(_)
create_lookup_keeping_first(apify_profiles) ==
    IF apify_profiles = <<>> THEN <<>>
    ELSE LET handle_to_profile == create_lookup_keeping_first(Front(apify_profiles))
             profile == Last(apify_profiles)
             public_id == profile.publicIdentifier
         IN  IF public_id # <<>>
                /\ normalize_linkedin_handle(public_id) \notin DOMAIN handle_to_profile
             THEN Put(handle_to_profile, normalize_linkedin_handle(public_id), profile)
             ELSE handle_to_profile

\* The loop of create_lookup_from_apify_profiles, in list order
RECURSIVE create_lookup_from_apify_profiles(_)
create_lookup_from_apify_profiles(apify_profiles) ==
    IF apify_profiles = <<>> THEN <<>>
    ELSE LET handle_to_profile == create_lookup_from_apify_profiles(Front(apify_profiles))
             profile == Last(apify_profiles)
             public_id == profile.publicIdentifier
         IN  IF public_id # <<>>
             THEN Put(handle_to_profile, normalize_linkedin_handle(public_id), profile)
             ELSE handle_to_profile

\* match_guest_to_apify_profile looking the raw handle up, not the normalized
match_guest_by_raw_handle(guest_record, apify_profile_lookup) ==
    IF guest_record.linkedin_handle \in DOMAIN apify_profile_lookup
    THEN apify_profile_lookup[guest_record.linkedin_handle]
    ELSE NoneProfile

\* apify_profile_lookup.get(normalized_handle)
match_guest_to_apify_profile(guest_record, apify_profile_lookup) ==
    LET normalized_handle == normalize_linkedin_handle(guest_record.linkedin_handle)
    IN  IF normalized_handle \in DOMAIN apify_profile_lookup
        THEN apify_profile_lookup[normalized_handle]
        ELSE NoneProfile

\* `if apify_profile:` -- None (and an empty dict) is false
Truthy(apify_profile) == apify_profile # NoneProfile

\* partition_guests_by_profile_availability with `else` lost: every guest is
\* appended to without_profiles
RECURSIVE partition_appending_all_to_without(_, _)
partition_appending_all_to_without(pending, apify_profile_lookup) ==
    IF pending = <<>> THEN [with_profiles |-> <<>>, without_profiles |-> <<>>]
    ELSE LET done == partition_appending_all_to_without(Front(pending), apify_profile_lookup)
             guest == Last(pending)
             apify_profile == match_guest_to_apify_profile(guest, apify_profile_lookup)
         IN  IF Truthy(apify_profile)
             THEN [with_profiles |->
                      Append(done.with_profiles, [profile |-> apify_profile, guest |-> guest]),
                   without_profiles |-> Append(done.without_profiles, guest)]
             ELSE [done EXCEPT !.without_profiles = Append(@, guest)]

\* The loop of partition_guests_by_profile_availability, in list order
RECURSIVE partition_guests_by_profile_availability(_, _)
partition_guests_by_profile_availability(pending, apify_profile_lookup) ==
    IF pending = <<>> THEN [with_profiles |-> <<>>, without_profiles |-> <<>>]
    ELSE LET done == partition_guests_by_profile_availability(Front(pending), apify_profile_lookup)
             guest == Last(pending)
             apify_profile == match_guest_to_apify_profile(guest, apify_profile_lookup)
         IN  IF Truthy(apify_profile)
             THEN [done EXCEPT !.with_profiles =
                      Append(@, [profile |-> apify_profile, guest |-> guest])]
             ELSE [done EXCEPT !.without_profiles = Append(@, guest)]

(* --------------------------- record builder --------------------------- *)

\* build_enriched_profile_record that keeps the guest's retry_count
build_enriched_keeping_retry_count(apify_profile, guest_record) ==
    [luma_guest_api_id |-> guest_record.luma_guest_api_id,
     linkedin_handle |-> guest_record.linkedin_handle,
     record_source |-> "apify",
     profile_found |-> TRUE,
     profile_fetch_message |-> "NULL",
     full_name |-> apify_profile.fullName,
     public_identifier |-> apify_profile.publicIdentifier,
     profile_data |-> apify_profile,
     retry_count |-> guest_record.retry_count,
     last_retry_at |-> NULL_TS,
     next_retry_after |-> NULL_TS]

build_enriched_profile_record(apify_profile, guest_record) ==
    [luma_guest_api_id |-> guest_record.luma_guest_api_id,
     linkedin_handle |-> guest_record.linkedin_handle,
     record_source |-> "apify",
     profile_found |-> TRUE,
     profile_fetch_message |-> "NULL",
     full_name |-> apify_profile.fullName,
     public_identifier |-> apify_profile.publicIdentifier,
     profile_data |-> apify_profile,
     retry_count |-> 0,
     last_retry_at |-> NULL_TS,
     next_retry_after |-> NULL_TS]

\* build_missing_profile_record with a backoff linear in the retry count
build_missing_linear_backoff(guest_record, current_timestamp) ==
    LET new_retry_count == guest_record.retry_count + 1
        backoff_minutes == new_retry_count * BackoffBaseMinutes
    IN  [luma_guest_api_id |-> guest_record.luma_guest_api_id,
         linkedin_handle |-> guest_record.linkedin_handle,
         record_source |-> "apify",
         profile_found |-> FALSE,
         profile_fetch_message |-> MissingMessage,
         full_name |-> "NULL",
         public_identifier |-> NullHandle,
         profile_data |-> NoneProfile,
         retry_count |-> new_retry_count,
         last_retry_at |-> current_timestamp,
         next_retry_after |-> current_timestamp + (backoff_minutes * MsPerMinute)]

\* build_missing_profile_record that stores the normalized handle
build_missing_with_normalized_handle(guest_record, current_timestamp) ==
    LET new_retry_count == guest_record.retry_count + 1
        backoff_minutes == (new_retry_count * new_retry_count) * BackoffBaseMinutes
    IN  [luma_guest_api_id |-> guest_record.luma_guest_api_id,
         linkedin_handle |-> normalize_linkedin_handle(guest_record.linkedin_handle),
         record_source |-> "apify",
         profile_found |-> FALSE,
         profile_fetch_message |-> MissingMessage,
         full_name |-> "NULL",
         public_identifier |-> NullHandle,
         profile_data |-> NoneProfile,
         retry_count |-> new_retry_count,
         last_retry_at |-> current_timestamp,
         next_retry_after |-> current_timestamp + (backoff_minutes * MsPerMinute)]

\* current_timestamp is the clock read of line 173
build_missing_profile_record(guest_record, current_timestamp) ==
    LET current_retry_count == guest_record.retry_count
        new_retry_count == current_retry_count + 1
        backoff_minutes == (new_retry_count * new_retry_count) * BackoffBaseMinutes
        next_retry_timestamp == current_timestamp + (backoff_minutes * MsPerMinute)
    IN  [luma_guest_api_id |-> guest_record.luma_guest_api_id,
         linkedin_handle |-> guest_record.linkedin_handle,
         record_source |-> "apify",
         profile_found |-> FALSE,
         profile_fetch_message |-> MissingMessage,
         full_name |-> "NULL",
         public_identifier |-> NullHandle,
         profile_data |-> NoneProfile,
         retry_count |-> new_retry_count,
         last_retry_at |-> current_timestamp,
         next_retry_after |-> next_retry_timestamp]

\* BuildAllRecords without the missing_records
BuildEnrichedRecordsOnly(with_profiles, without_profiles, current_timestamp) ==
    [i \in 1..Len(with_profiles) |->
        build_enriched_profile_record(with_profiles[i].profile, with_profiles[i].guest)]

\* Steps 4 and 5 of enrich_linkedin_profiles: enriched_records + missing_records
BuildAllRecords(with_profiles, without_profiles, current_timestamp) ==
    [i \in 1..Len(with_profiles) |->
        build_enriched_profile_record(with_profiles[i].profile, with_profiles[i].guest)]
    \o [i \in 1..Len(without_profiles) |->
        build_missing_profile_record(without_profiles[i], current_timestamp)]

\* Step 2 of enrich_linkedin_profiles: the list given to get_linkedin_profiles,
\* f"https://www.linkedin.com{guest[2]}" for each pending guest
linkedin_urls(guest_list) ==
    [i \in 1..Len(guest_list) |-> HttpsWww \o guest_list[i].linkedin_handle]

(* ------------------------------- upsert ------------------------------- *)

\* The update_columns of upsert_linkedin_profiles: all but the conflict columns
Columns(rec) ==
    [record_source |-> rec.record_source,
     profile_found |-> rec.profile_found,
     profile_fetch_message |-> rec.profile_fetch_message,
     full_name |-> rec.full_name,
     public_identifier |-> rec.public_identifier,
     profile_data |-> rec.profile_data,
     retry_count |-> rec.retry_count,
     last_retry_at |-> rec.last_retry_at,
     next_retry_after |-> rec.next_retry_after]

\* INSERT ... ON CONFLICT (luma_guest_api_id, linkedin_handle) DO UPDATE
\* refuses a statement that proposes the same key twice.
DistinctKeys(records) ==
    \A i, k \in 1..Len(records) : i # k => KeyOf(records[i]) # KeyOf(records[k])

\* upsert_multiple_records with ON CONFLICT (...) DO NOTHING: an existing row
\* is kept as it is
upsert_keeping_existing_rows(rs, records) ==
    LET keys == {KeyOf(records[i]) : i \in 1..Len(records)}
    IN  [k \in (DOMAIN rs) \cup keys |->
            IF k \in DOMAIN rs
            THEN rs[k]
            ELSE Columns(records[CHOOSE i \in 1..Len(records) : KeyOf(records[i]) = k])]

\* upsert_multiple_records with DO UPDATE SET retry_count = lp.retry_count + 1:
\* a failure record counts on from the row it finds
upsert_incrementing_in_place(rs, records) ==
    LET keys == {KeyOf(records[i]) : i \in 1..Len(records)}
        rec(k) == records[CHOOSE i \in 1..Len(records) : KeyOf(records[i]) = k]
    IN  [k \in (DOMAIN rs) \cup keys |->
            IF k \notin keys THEN rs[k]
            ELSE IF k \in DOMAIN rs /\ ~rec(k).profile_found
                 THEN [Columns(rec(k)) EXCEPT !.retry_count = rs[k].retry_count + 1]
                 ELSE Columns(rec(k))]

\* upsert_multiple_records that sends only the first record of the batch
upsert_first_record_only(rs, records) ==
    [k \in (DOMAIN rs) \cup {KeyOf(records[1])} |->
        IF k = KeyOf(records[1]) THEN Columns(records[1]) ELSE rs[k]]

\* upsert_multiple_records whose DO UPDATE SET leaves profile_found out: an
\* existing row keeps its profile_found
upsert_keeping_profile_found(rs, records) ==
    LET keys == {KeyOf(records[i]) : i \in 1..Len(records)}
        rec(k) == records[CHOOSE i \in 1..Len(records) : KeyOf(records[i]) = k]
    IN  [k \in (DOMAIN rs) \cup keys |->
            IF k \notin keys THEN rs[k]
            ELSE IF k \in DOMAIN rs
                 THEN [Columns(rec(k)) EXCEPT !.profile_found = rs[k].profile_found]
                 ELSE Columns(rec(k))]

\* INSERT ... VALUES records ON CONFLICT (...) DO UPDATE SET col = EXCLUDED.col
upsert_multiple_records(rs, records) ==
    LET keys == {KeyOf(records[i]) : i \in 1..Len(records)}
    IN  [k \in (DOMAIN rs) \cup keys |->
            IF k \in keys
            THEN Columns(records[CHOOSE i \in 1..Len(records) : KeyOf(records[i]) = k])
            ELSE rs[k]]

(* ------------------------------ actions ------------------------------- *)

InitLocals ==
    /\ pc = [r \in Runs |-> "idle"]
    /\ pending_guests = [r \in Runs |-> <<>>]
    /\ profile_lookup = [r \in Runs |-> <<>>]
    /\ guests_with_profiles = [r \in Runs |-> <<>>]
    /\ guests_without_profiles = [r \in Runs |-> <<>>]
    /\ all_records = [r \in Runs |-> <<>>]
    /\ success = [r \in Runs |-> FALSE]

\* The pure functions are not observed on their own.
InitCalls ==
    /\ spelling = NoSpelling
    /\ profiles_arg = <<>>
    /\ normal_form = NotCalled
    /\ normal_form_again = NotCalled
    /\ index_result = <<>>

\* Two guests whose handles are spellings of the same profile and one without
\* a handle, nothing enriched yet.
Init ==
    /\ guests = [g1 |-> HandleA, g2 |-> HandleAVariant, g3 |-> NullHandle]
    /\ handle_changes = 0
    /\ rows = <<>>
    /\ now = 0
    /\ InitLocals
    /\ InitCalls

\* One guest with a handle.
InitOverlap ==
    /\ guests = [g1 |-> HandleA, g2 |-> NullHandle, g3 |-> NullHandle]
    /\ handle_changes = 0
    /\ rows = <<>>
    /\ now = 0
    /\ InitLocals
    /\ InitCalls

\* Select without `if not pending_guests: return`
SelectWithoutEmptyCheck(r, limit) ==
    /\ pc[r] = "idle"
    /\ \E results \in fetch_guests_pending_for_enrichment(guests, rows, now, limit) :
          /\ pending_guests' = [pending_guests EXCEPT ![r] = results]
          /\ pc' = [pc EXCEPT ![r] = "fetched"]
    /\ UNCHANGED <<guests, handle_changes, rows, now, profile_lookup,
                   guests_with_profiles, guests_without_profiles, all_records, success>>
    /\ UNCHANGED calls

\* Step 1: the query returns guests; a result with no rows ends the invocation.
Select(r, limit) ==
    /\ pc[r] = "idle"
    /\ \E results \in fetch_guests_pending_for_enrichment(guests, rows, now, limit) :
          /\ pending_guests' = [pending_guests EXCEPT ![r] = results]
          /\ pc' = [pc EXCEPT ![r] = IF results = <<>> THEN "no_guests" ELSE "fetched"]
    /\ UNCHANGED <<guests, handle_changes, rows, now, profile_lookup,
                   guests_with_profiles, guests_without_profiles, all_records, success>>
    /\ UNCHANGED calls

\* Step 1 when open_connection() fails or the query errors: results is None.
SelectFail(r) ==
    /\ pc[r] = "idle"
    /\ pc' = [pc EXCEPT ![r] = "no_guests"]
    /\ UNCHANGED <<guests, handle_changes, rows, now, locals>>
    /\ UNCHANGED calls

\* Steps 2 to 4: the scraper returns apify_profiles (the empty list when the
\* actor call fails), the guests are partitioned and the records built. Each
\* local of enrich_linkedin_profiles is bound once, in the order of the code.
Lookup(r, apify_profiles) ==
    /\ pc[r] = "fetched"
    /\ \E lookup \in {create_lookup_from_apify_profiles(apify_profiles)} :
       \E parts \in {partition_guests_by_profile_availability(pending_guests[r], lookup)} :
          /\ profile_lookup' = [profile_lookup EXCEPT ![r] = lookup]
          /\ guests_with_profiles' =
                [guests_with_profiles EXCEPT ![r] = parts.with_profiles]
          /\ guests_without_profiles' =
                [guests_without_profiles EXCEPT ![r] = parts.without_profiles]
          /\ all_records' = [all_records EXCEPT ![r] =
                BuildAllRecords(parts.with_profiles, parts.without_profiles, now)]
    /\ pc' = [pc EXCEPT ![r] = "built"]
    /\ UNCHANGED <<guests, handle_changes, rows, now, pending_guests, success>>
    /\ UNCHANGED calls

\* Step 2 when APIFY_API_TOKEN is not set: get_linkedin_profiles raises.
LookupRaise(r) ==
    /\ pc[r] = "fetched"
    /\ pc' = [pc EXCEPT ![r] = "raised"]
    /\ UNCHANGED <<guests, handle_changes, rows, now, locals>>
    /\ UNCHANGED calls

\* Step 5, committed
UpsertOk(r) ==
    /\ pc[r] = "built"
    /\ DistinctKeys(all_records[r])
    /\ rows' = upsert_multiple_records(rows, all_records[r])
    /\ success' = [success EXCEPT ![r] = TRUE]
    /\ pc' = [pc EXCEPT ![r] = "upserted"]
    /\ UNCHANGED <<guests, handle_changes, now, pending_guests, profile_lookup,
                   guests_with_profiles, guests_without_profiles, all_records>>
    /\ UNCHANGED calls

\* UpsertFail that has committed the first record of the batch before failing
UpsertFailAfterFirstRecord(r) ==
    /\ pc[r] = "built"
    /\ rows' = upsert_multiple_records(rows, <<all_records[r][1]>>)
    /\ success' = [success EXCEPT ![r] = FALSE]
    /\ pc' = [pc EXCEPT ![r] = "upserted"]
    /\ UNCHANGED <<guests, handle_changes, now, pending_guests, profile_lookup,
                   guests_with_profiles, guests_without_profiles, all_records>>
    /\ UNCHANGED calls

\* Step 5 when open_connection() fails or the statement errors (rolled back)
UpsertFail(r) ==
    /\ pc[r] = "built"
    /\ success' = [success EXCEPT ![r] = FALSE]
    /\ pc' = [pc EXCEPT ![r] = "upserted"]
    /\ UNCHANGED <<guests, handle_changes, rows, now, pending_guests, profile_lookup,
                   guests_with_profiles, guests_without_profiles, all_records>>
    /\ UNCHANGED calls

\* enrich_linkedin_profiles returns (or the exception leaves it)
Return(r) ==
    /\ pc[r] \in {"no_guests", "upserted", "raised"}
    /\ pc' = [pc EXCEPT ![r] = "idle"]
    /\ pending_guests' = [pending_guests EXCEPT ![r] = <<>>]
    /\ profile_lookup' = [profile_lookup EXCEPT ![r] = <<>>]
    /\ guests_with_profiles' = [guests_with_profiles EXCEPT ![r] = <<>>]
    /\ guests_without_profiles' = [guests_without_profiles EXCEPT ![r] = <<>>]
    /\ all_records' = [all_records EXCEPT ![r] = <<>>]
    /\ success' = [success EXCEPT ![r] = FALSE]
    /\ UNCHANGED <<guests, handle_changes, rows, now>>
    /\ UNCHANGED calls

\* Time passes.
Tick ==
    /\ \E t \in ClockValues : t > now /\ now' = t
    /\ UNCHANGED <<guests, handle_changes, rows, pc, locals>>
    /\ UNCHANGED calls

\* Upstream rewrites a guest's linkedin_handle in luma.guests.
ChangeHandle(s, h) ==
    /\ handle_changes < MaxHandleChanges
    /\ guests[s] # NullHandle
    /\ guests[s] # h
    /\ guests' = [guests EXCEPT ![s] = h]
    /\ handle_changes' = handle_changes + 1
    /\ UNCHANGED <<rows, now, pc, locals>>
    /\ UNCHANGED calls

\* The job as it is scheduled: one invocation at a time, while time passes and
\* upstream rewrites the handle of guest g1 (to HandleB and back).
Next ==
    \/ \E limit \in 1..MaxLimit : Select("r1", limit)
    \/ SelectFail("r1")
    \/ \E apify_profiles \in ProfileLists : Lookup("r1", apify_profiles)
    \/ LookupRaise("r1")
    \/ UpsertOk("r1")
    \/ UpsertFail("r1")
    \/ Return("r1")
    \/ Tick
    \/ \E h \in {HandleA, HandleB} : ChangeHandle("g1", h)

Spec == Init /\ [][Next]_vars

\* Overlapping invocations over a roster that upstream leaves alone.
NextOverlap ==
    \/ \E r \in Runs, limit \in 1..MaxLimit : Select(r, limit)
    \/ \E r \in Runs : SelectFail(r)
    \/ \E r \in Runs, apify_profiles \in ProfileLists : Lookup(r, apify_profiles)
    \/ \E r \in Runs : LookupRaise(r)
    \/ \E r \in Runs : UpsertOk(r)
    \/ \E r \in Runs : UpsertFail(r)
    \/ \E r \in Runs : Return(r)
    \/ Tick

SpecOverlap == InitOverlap /\ [][NextOverlap]_vars

\* Invocations that never overlap and never fail to reach the database or the
\* scraper, over a roster that upstream leaves alone. The scheduler keeps
\* starting the job, and every step of an invocation is eventually taken.
NextLive ==
    \/ \E limit \in 1..MaxLimit : Select("r1", limit)
    \/ \E apify_profiles \in ProfileLists : Lookup("r1", apify_profiles)
    \/ UpsertOk("r1")
    \/ Return("r1")
    \/ Tick

SpecLive ==
    /\ Init
    /\ [][NextLive]_vars
    /\ WF_vars(\E limit \in 1..MaxLimit : Select("r1", limit))
    /\ WF_vars(\E apify_profiles \in ProfileLists : Lookup("r1", apify_profiles))
    /\ WF_vars(UpsertOk("r1"))
    /\ WF_vars(Return("r1"))

\* The pure functions of linkedin_profile_utils.py called on their own: one
\* argument of each is drawn, normalize_linkedin_handle is applied to its
\* argument and then to its result, create_lookup_from_apify_profiles to its.
InitFunctions ==
    /\ guests = [s \in Subjects |-> NullHandle]
    /\ handle_changes = 0
    /\ rows = <<>>
    /\ now = 0
    /\ InitLocals
    /\ spelling \in Spellings
    /\ profiles_arg \in ProfileLists
    /\ normal_form = NotCalled
    /\ normal_form_again = NotCalled
    /\ index_result = <<>>

Normalize ==
    /\ normal_form = NotCalled
    /\ normal_form' = normalize_linkedin_handle(Spelt(spelling))
    /\ UNCHANGED <<guests, handle_changes, rows, now, pc, locals,
                   spelling, normal_form_again, profiles_arg, index_result>>

NormalizeAgain ==
    /\ normal_form # NotCalled
    /\ normal_form_again = NotCalled
    /\ normal_form_again' = normalize_linkedin_handle(normal_form)
    /\ UNCHANGED <<guests, handle_changes, rows, now, pc, locals,
                   spelling, normal_form, profiles_arg, index_result>>

CreateLookup ==
    /\ index_result = <<>>
    /\ index_result' = <<create_lookup_from_apify_profiles(profiles_arg)>>
    /\ UNCHANGED <<guests, handle_changes, rows, now, pc, locals,
                   spelling, normal_form, normal_form_again, profiles_arg>>

NextFunctions == Normalize \/ NormalizeAgain \/ CreateLookup

SpecFunctions == InitFunctions /\ [][NextFunctions]_vars

\* What an invocation reports on its output: "Found n guests needing
\* enrichment" (nothing to count when "No guests need LinkedIn enrichment"),
\* and after the upsert "Enriched: len(enriched_records)" and
\* "Missing: len(missing_records)".
Summary(r) ==
    [attempted |-> Len(pending_guests[r]),
     resolved |-> Cardinality({i \in 1..Len(all_records[r]) : all_records[r][i].profile_found}),
     unresolved |-> Cardinality({i \in 1..Len(all_records[r]) : ~all_records[r][i].profile_found})]

(* ------------------------------- claims ------------------------------- *)

\* The persisted row of a candidate's (luma_guest_api_id, linkedin_handle)
HasRow(c) == KeyOf(c) \in DOMAIN rows
RowOf(c) == rows[KeyOf(c)]

\* Every candidate of every result the selector can return now
SelectableNow ==
    UNION {{res[i] : i \in 1..Len(res)} :
           res \in UNION {fetch_guests_pending_for_enrichment(guests, rows, now, limit) :
                          limit \in 1..MaxLimit}}

\* C1: the selector never returns a candidate whose persisted row has
\* retry_count >= 3, whatever next_retry_after is.
C1_CeilingEnforced ==
    \A c \in SelectableNow : HasRow(c) => RowOf(c).retry_count < MaxRetryCount

\* C2: under any interleaving of overlapping invocations, starting from an
\* empty table, every persisted row has 0 <= retry_count <= 3 and no invocation
\* builds a record with a retry_count above 3.
C2_RetryCountBounded ==
    /\ \A k \in DOMAIN rows :
          rows[k].retry_count >= 0 /\ rows[k].retry_count <= MaxRetryCount
    /\ \A r \in Runs : \A i \in 1..Len(all_records[r]) :
          all_records[r][i].retry_count >= 0
          /\ all_records[r][i].retry_count <= MaxRetryCount

\* C2 witness: two invocations selected the same guest at retry_count 2, one
\* has written retry_count 3 and the other is about to write it again.
C2_Witness ==
    \E k \in DOMAIN rows :
        /\ rows[k].retry_count = MaxRetryCount
        /\ pc["r1"] = "upserted" /\ success["r1"]
        /\ pc["r2"] = "built"
        /\ \A r \in Runs : \E i \in 1..Len(all_records[r]) :
              KeyOf(all_records[r][i]) = k
              /\ all_records[r][i].retry_count = MaxRetryCount

\* Every guest with a handle has a row for it that is found or exhausted.
AllTerminal ==
    \A s \in Subjects : guests[s] # NullHandle =>
        /\ <<s, guests[s]>> \in DOMAIN rows
        /\ \/ rows[<<s, guests[s]>>].profile_found
           \/ rows[<<s, guests[s]>>].retry_count >= MaxRetryCount

\* The selector returns nothing and no lookup is under way or still to be
\* written.
Quiet == SelectableNow = {} /\ pc["r1"] \notin {"fetched", "built"}

\* Time advances past every backoff: again and again, unless every guest is
\* terminal, the clock is late enough for the selector to return a guest.
TimeAdvances == []<>(AllTerminal \/ SelectableNow # {})

\* C3: with a fixed roster, non-overlapping invocations repeated forever, time
\* advancing past every backoff and the scraper free to resolve or miss any
\* guest, eventually and from then on every guest is found or has
\* retry_count >= 3, the selector returns nothing and no lookup is made.
C3_Convergence == TimeAdvances => <>[](AllTerminal /\ Quiet)

\* C3 witness: one guest found, the other exhausted after three misses, and
\* an invocation started afterwards has found nothing to do.
C3_Witness ==
    /\ AllTerminal
    /\ pc["r1"] = "no_guests"
    /\ \E k \in DOMAIN rows : rows[k].profile_found
    /\ \E k \in DOMAIN rows : ~rows[k].profile_found /\ rows[k].retry_count = MaxRetryCount

\* C4: the selector never returns a candidate whose persisted row is not found
\* and has a next_retry_after at or after now, so the attempt after a failure
\* on the same (guest, handle) starts strictly after that next_retry_after.
C4_BackoffRespected ==
    \A c \in SelectableNow :
        (HasRow(c) /\ ~RowOf(c).profile_found /\ RowOf(c).next_retry_after # NULL_TS)
            => RowOf(c).next_retry_after < now

\* C5: a row persisted with profile_found = TRUE is never rewritten to
\* profile_found = FALSE or to a non-zero retry_count, and no invocation that
\* starts afterwards selects its (guest, handle).
C5_FoundIsTerminal ==
    [][/\ \A k \in DOMAIN rows : rows[k].profile_found =>
             rows'[k].profile_found /\ rows'[k].retry_count = 0
       /\ \A r \in Runs : (pc[r] = "idle" /\ pc'[r] = "fetched") =>
             \A i \in 1..Len(pending_guests'[r]) :
                 HasRow(pending_guests'[r][i]) => ~RowOf(pending_guests'[r][i]).profile_found
      ]_vars

\* C6: when invocations do not overlap, a committed failure record leaves the
\* row's retry_count at the retry_count persisted before the invocation plus
\* one, an absent row counting as 0.
C6_IncrementByOne ==
    [][(pc["r1"] = "built" /\ pc'["r1"] = "upserted" /\ success'["r1"]) =>
          \A i \in 1..Len(guests_without_profiles["r1"]) :
              LET c == guests_without_profiles["r1"][i]
              IN  rows'[KeyOf(c)].retry_count =
                      (IF HasRow(c) THEN RowOf(c).retry_count ELSE 0) + 1
      ]_vars

\* The position in all_records of the record built for the i-th guest of
\* guests_without_profiles: the missing records follow the enriched ones.
MissingRecord(r, i) == all_records[r][Len(guests_with_profiles[r]) + i]

\* C7: the failure record of a candidate with retry_count c in {0, 1, 2} built
\* at time now has profile_found = FALSE, retry_count = c + 1, last_retry_at =
\* now and next_retry_after = now + 5, 20 or 45 minutes for retry_count 1, 2, 3.
C7_BackoffComputation ==
    [][\A r \in Runs : (pc[r] = "fetched" /\ pc'[r] = "built") =>
          \A i \in 1..Len(guests_without_profiles'[r]) :
              LET c == guests_without_profiles'[r][i]
                  rec == all_records'[r][Len(guests_with_profiles'[r]) + i]
                  minutes == <<5, 20, 45>>
              IN  /\ c.retry_count \in {0, 1, 2}
                  /\ KeyOf(rec) = KeyOf(c)
                  /\ rec.profile_found = FALSE
                  /\ rec.retry_count = c.retry_count + 1
                  /\ rec.last_retry_at = now
                  /\ rec.next_retry_after = now + minutes[rec.retry_count] * 60000
                  /\ rec.next_retry_after - rec.last_retry_at
                        = rec.retry_count * rec.retry_count * 5 * 60000
      ]_vars

\* C7 witness: failure records with retry_count 1, 2 and 3 have been built,
\* here the third, 45 minutes of backoff after its last_retry_at.
C7_Witness ==
    \E r \in Runs : \E i \in 1..Len(guests_without_profiles[r]) :
        /\ pc[r] = "built"
        /\ guests_without_profiles[r][i].retry_count = 2
        /\ MissingRecord(r, i).retry_count = 3
        /\ MissingRecord(r, i).next_retry_after - MissingRecord(r, i).last_retry_at = 2700000

\* C8: when a candidate selected at retry_count 1 or 2 is resolved, the row
\* after the upsert has profile_found = TRUE, retry_count = 0 and last_retry_at,
\* next_retry_after and profile_fetch_message null.
C8_SuccessReset ==
    \A r \in Runs : (pc[r] = "upserted" /\ success[r]) =>
        \A i \in 1..Len(guests_with_profiles[r]) :
            LET c == guests_with_profiles[r][i].guest
            IN  c.retry_count \in {1, 2} =>
                    /\ HasRow(c)
                    /\ RowOf(c).profile_found = TRUE
                    /\ RowOf(c).retry_count = 0
                    /\ RowOf(c).last_retry_at = NULL_TS
                    /\ RowOf(c).next_retry_after = NULL_TS
                    /\ RowOf(c).profile_fetch_message = "NULL"

\* C8 witness: a guest that had failed twice has just been resolved and its
\* row reset.
C8_Witness ==
    \E r \in Runs : \E i \in 1..Len(guests_with_profiles[r]) :
        /\ pc[r] = "upserted" /\ success[r]
        /\ guests_with_profiles[r][i].guest.retry_count = 2
        /\ RowOf(guests_with_profiles[r][i].guest).profile_found
        /\ RowOf(guests_with_profiles[r][i].guest).retry_count = 0

\* The number of positions of sequence q that hold v
Count(q, v) == Cardinality({i \in 1..Len(q) : q[i] = v})

\* The guests of guests_with_profiles, in order
MatchedGuests(r) == [i \in 1..Len(guests_with_profiles[r]) |-> guests_with_profiles[r][i].guest]

\* C9: the partition returns |matched| + |unmatched| = |candidates|, and every
\* occurrence of a candidate is in exactly one of the two outputs, once.
C9_ExhaustivePartition ==
    \A r \in Runs : pc[r] \in {"built", "upserted"} =>
        /\ Len(guests_with_profiles[r]) + Len(guests_without_profiles[r])
              = Len(pending_guests[r])
        /\ \A i \in 1..Len(pending_guests[r]) :
              LET c == pending_guests[r][i]
              IN  /\ Count(MatchedGuests(r), c) + Count(guests_without_profiles[r], c)
                        = Count(pending_guests[r], c)
                  /\ Count(MatchedGuests(r), c) = 0
                        \/ Count(guests_without_profiles[r], c) = 0

\* C9 witness: a batch of two candidates has been split, one to each output.
C9_Witness ==
    \E r \in Runs :
        /\ pc[r] = "built"
        /\ Len(pending_guests[r]) = 2
        /\ Len(guests_with_profiles[r]) = 1
        /\ Len(guests_without_profiles[r]) = 1

\* C10: a candidate is in the matched output, paired with the index entry of
\* its normalized handle, iff that normalized handle is a key of the index;
\* otherwise it is in the unmatched output. Candidates whose handles normalize
\* to the same key are matched to the same result.
C10_MatchCriterion ==
    \A r \in Runs : pc[r] \in {"built", "upserted"} =>
        /\ \A i \in 1..Len(pending_guests[r]) :
              LET c == pending_guests[r][i]
                  key == normalize_linkedin_handle(c.linkedin_handle)
              IN  IF key \in DOMAIN profile_lookup[r]
                  THEN /\ \E j \in 1..Len(guests_with_profiles[r]) :
                             /\ guests_with_profiles[r][j].guest = c
                             /\ guests_with_profiles[r][j].profile = profile_lookup[r][key]
                       /\ Count(guests_without_profiles[r], c) = 0
                  ELSE /\ Count(MatchedGuests(r), c) = 0
                       /\ Count(guests_without_profiles[r], c) > 0
        /\ \A i, j \in 1..Len(guests_with_profiles[r]) :
              normalize_linkedin_handle(guests_with_profiles[r][i].guest.linkedin_handle)
                 = normalize_linkedin_handle(guests_with_profiles[r][j].guest.linkedin_handle)
              => guests_with_profiles[r][i].profile = guests_with_profiles[r][j].profile

\* C10 witness: two candidates with different spellings of one handle have
\* both been matched to the same profile.
C10_Witness ==
    \E r \in Runs :
        /\ pc[r] = "built"
        /\ Len(guests_with_profiles[r]) = 2
        /\ guests_with_profiles[r][1].guest.linkedin_handle
              # guests_with_profiles[r][2].guest.linkedin_handle
        /\ guests_with_profiles[r][1].profile = guests_with_profiles[r][2].profile

\* C11: normalizing the result of normalize_linkedin_handle on a non-empty
\* string gives that result again.
C11_Idempotence ==
    (normal_form_again # NotCalled /\ Spelt(spelling) # <<>>) =>
        normal_form_again = normal_form

\* C12: every spelling of a handle h (letter case, leading and trailing
\* slashes, the in/ path prefix, a host prefix with or without scheme and
\* www.) normalizes to /in/ followed by h in lower case.
C12_VariantEquality ==
    (normal_form # NotCalled /\ spelling.name # <<>>) =>
        normal_form = <<"/">> \o InSlash \o Lower(spelling.name)

\* C13: whenever the external lookup fails, the invocation goes on: it leaves
\* the lookup step with the records built, and with nothing returned every
\* selected candidate has a failure record with retry_count one higher and
\* the backoff set.
C13_OutageDegrades ==
    [][\A r \in Runs : (pc[r] = "fetched" /\ pc'[r] # "fetched") =>
          /\ pc'[r] = "built"
          /\ profile_lookup'[r] = <<>> =>
                /\ Len(all_records'[r]) = Len(pending_guests[r])
                /\ \A i \in 1..Len(pending_guests[r]) :
                      /\ KeyOf(all_records'[r][i]) = KeyOf(pending_guests[r][i])
                      /\ all_records'[r][i].profile_found = FALSE
                      /\ all_records'[r][i].retry_count = pending_guests[r][i].retry_count + 1
                      /\ all_records'[r][i].next_retry_after > now
      ]_vars

\* C13 as amended: a lookup that returns nothing (the actor call failed, or
\* found no profile) leaves every selected candidate with a failure record,
\* retry_count one higher and backoff set; the only other way out of the
\* lookup step is the exception of a missing APIFY_API_TOKEN, which builds no
\* record and writes no row.
C13_ActorFailureDegrades ==
    [][\A r \in Runs : (pc[r] = "fetched" /\ pc'[r] # "fetched") =>
          \/ /\ pc'[r] = "built"
             /\ profile_lookup'[r] = <<>> =>
                   /\ Len(all_records'[r]) = Len(pending_guests[r])
                   /\ \A i \in 1..Len(pending_guests[r]) :
                         /\ KeyOf(all_records'[r][i]) = KeyOf(pending_guests[r][i])
                         /\ all_records'[r][i].profile_found = FALSE
                         /\ all_records'[r][i].retry_count
                               = pending_guests[r][i].retry_count + 1
                         /\ all_records'[r][i].next_retry_after > now
          \/ /\ pc'[r] = "raised"
             /\ all_records'[r] = <<>>
             /\ rows' = rows
      ]_vars

\* C13 witness: a lookup returned nothing for a batch of two and the two
\* failure records have been upserted.
C13_Witness ==
    /\ pc["r1"] = "upserted" /\ success["r1"]
    /\ profile_lookup["r1"] = <<>>
    /\ Len(pending_guests["r1"]) = 2
    /\ \A i \in 1..2 :
          /\ HasRow(pending_guests["r1"][i])
          /\ RowOf(pending_guests["r1"][i]) = Columns(all_records["r1"][i])
          /\ ~RowOf(pending_guests["r1"][i]).profile_found

\* C14: a failed upsert creates and changes no row, so every candidate is
\* exactly as eligible afterwards as before, and the invocation reports
\* failure.
C14_UpsertAllOrNothing ==
    [][\A r \in Runs : (pc[r] = "built" /\ pc'[r] = "upserted") =>
          \/ /\ success'[r]
             /\ \A i \in 1..Len(all_records[r]) :
                   rows'[KeyOf(all_records[r][i])] = Columns(all_records[r][i])
          \/ /\ ~success'[r]
             /\ rows' = rows
             /\ SelectableNow' = SelectableNow
      ]_vars

\* C14 witness: the upsert of a batch with a record for a pair that has no row
\* has failed, and the pair still has no row.
C14_Witness ==
    /\ pc["r1"] = "upserted" /\ ~success["r1"]
    /\ \E i \in 1..Len(all_records["r1"]) : KeyOf(all_records["r1"][i]) \notin DOMAIN rows
    /\ \E i \in 1..Len(pending_guests["r1"]) : pending_guests["r1"][i] \in SelectableNow

\* The (luma_guest_api_id, linkedin_handle) pairs of a batch of records
BatchKeys(records) == {KeyOf(records[i]) : i \in 1..Len(records)}

C16_NeverAttemptedEligible ==
    \A s \in Subjects :
        (guests[s] # NullHandle /\ <<s, guests[s]>> \notin DOMAIN rows) =>
            \A results \in fetch_guests_pending_for_enrichment(guests, rows, now, MaxLimit) :
                \E i \in 1..Len(results) : KeyOf(results[i]) = <<s, guests[s]>>

\* The join rows that pass the WHERE clause now
QualifyingNow == {j \in JoinRows(guests, rows) : Where(j, guests, rows, now)}

\* C17: every result of the selector has at most limit candidates, in
\* ascending order of retry_count (0 without a row) and, within one
\* retry_count, of last_retry_at with nulls first; a qualifying candidate that
\* is left out has a retry_count no lower than any returned one.
C17_OrderAndBound ==
    \A limit \in 1..MaxLimit :
        \A p \in SelectJoinRows(guests, rows, now, limit) :
            /\ Len(p) <= limit
            /\ \A i, k \in 1..Len(p) : i < k =>
                  /\ CoalesceRetryCount(p[i], rows) <= CoalesceRetryCount(p[k], rows)
                  /\ CoalesceRetryCount(p[i], rows) = CoalesceRetryCount(p[k], rows) =>
                        \/ LastRetryAt(p[i], rows) = NULL_TS
                        \/ /\ LastRetryAt(p[k], rows) # NULL_TS
                           /\ LastRetryAt(p[i], rows) <= LastRetryAt(p[k], rows)
            /\ \A q \in QualifyingNow \ {p[i] : i \in 1..Len(p)} :
                  \A i \in 1..Len(p) :
                      CoalesceRetryCount(p[i], rows) <= CoalesceRetryCount(q, rows)

\* C17 witness: two candidates qualify, one never tried and one that has
\* failed, and the limit of 1 leaves the second out.
C17_Witness ==
    /\ \E a, b \in QualifyingNow :
          CoalesceRetryCount(a, rows) = 0 /\ CoalesceRetryCount(b, rows) > 0
    /\ \E p \in SelectJoinRows(guests, rows, now, 1) :
          Len(p) = 1 /\ CoalesceRetryCount(p[1], rows) = 0

\* C18: when an invocation commits its failure record for a candidate that an
\* overlapping invocation selected at the same retry_count n, missed too and
\* has already written, the row has profile_found = FALSE, retry_count = n + 1
\* and the last_retry_at and next_retry_after of the record written last;
\* upserting the batch a second time changes nothing.
C18_OverlapIdempotent ==
    [][\A r \in Runs : (pc[r] = "built" /\ pc'[r] = "upserted" /\ success'[r]) =>
          /\ upsert_multiple_records(rows', all_records[r]) = rows'
          /\ \A o \in Runs \ {r} : (pc[o] = "upserted" /\ success[o]) =>
                \A i \in 1..Len(guests_without_profiles[r]) :
                    LET c == guests_without_profiles[r][i]
                    IN  (\E j \in 1..Len(guests_without_profiles[o]) :
                            guests_without_profiles[o][j] = c) =>
                        /\ rows'[KeyOf(c)].profile_found = FALSE
                        /\ rows'[KeyOf(c)].retry_count = c.retry_count + 1
                        /\ rows'[KeyOf(c)].last_retry_at = MissingRecord(r, i).last_retry_at
                        /\ rows'[KeyOf(c)].next_retry_after
                              = MissingRecord(r, i).next_retry_after
      ]_vars

\* C18 witness: both invocations selected the guest at retry_count 1 and
\* missed, at different times; both have written, and the row has
\* retry_count 2 and the timestamps of the second writer.
C18_Witness ==
    /\ pc["r1"] = "upserted" /\ success["r1"]
    /\ pc["r2"] = "upserted" /\ success["r2"]
    /\ Len(guests_without_profiles["r1"]) = 1
    /\ guests_without_profiles["r2"] = guests_without_profiles["r1"]
    /\ guests_without_profiles["r1"][1].retry_count = 1
    /\ all_records["r1"][1].last_retry_at # all_records["r2"][1].last_retry_at
    /\ RowOf(guests_without_profiles["r1"][1]) = Columns(all_records["r2"][1])
    /\ RowOf(guests_without_profiles["r1"][1]).retry_count = 2

\* The positions of the argument whose publicIdentifier normalizes to key
PositionsOf(key) ==
    {i \in 1..Len(profiles_arg) :
        /\ profiles_arg[i].publicIdentifier # <<>>
        /\ normalize_linkedin_handle(profiles_arg[i].publicIdentifier) = key}

\* C19: the keys of the index are exactly the normalized non-empty
\* publicIdentifiers of the input, each mapped to the last profile of the
\* input that normalizes to it; a profile without publicIdentifier adds no key.
C19_LastWriteWins ==
    index_result # <<>> =>
        /\ DOMAIN index_result[1] =
              {normalize_linkedin_handle(profiles_arg[i].publicIdentifier) :
                  i \in {k \in 1..Len(profiles_arg) : profiles_arg[k].publicIdentifier # <<>>}}
        /\ \A key \in DOMAIN index_result[1] :
              /\ PositionsOf(key) # {}
              /\ \E i \in PositionsOf(key) :
                    /\ \A k \in PositionsOf(key) : k <= i
                    /\ index_result[1][key] = profiles_arg[i]

\* C19 witness: two different profiles whose publicIdentifiers normalize to
\* the same handle were indexed, and the index holds the second.
C19_Witness ==
    /\ index_result # <<>>
    /\ Len(profiles_arg) = 2
    /\ profiles_arg[1] # profiles_arg[2]
    /\ PositionsOf(<<"/">> \o InSlash \o <<"a">>) = {1, 2}
    /\ index_result[1][<<"/">> \o InSlash \o <<"a">>] = profiles_arg[2]

\* The rows of the table that hold a record of the invocation's batch
RowsUpserted(r) ==
    {k \in DOMAIN rows :
        \E i \in 1..Len(all_records[r]) :
            KeyOf(all_records[r][i]) = k /\ rows[k] = Columns(all_records[r][i])}

C21_StepOrder ==
    [][/\ \A r \in Runs :
             /\ pc'[r] = "fetched" =>
                   pc[r] \in {"idle", "fetched"} /\ pending_guests'[r] # <<>>
             /\ pc'[r] \in {"built", "raised"} => pc[r] \in {"fetched", pc'[r]}
             /\ pc'[r] = "upserted" => pc[r] \in {"built", "upserted"}
             /\ pc[r] = "built" => pc'[r] \in {"built", "upserted"}
             /\ pc[r] \in {"no_guests", "raised", "upserted"} => pc'[r] \in {pc[r], "idle"}
       /\ rows' # rows => \E r \in Runs : pc[r] = "built" /\ pc'[r] = "upserted"
      ]_vars

\* C21 witness: an invocation has selected while the only guest is backing
\* off, got no candidate, and is about to return without lookup or upsert.
C21_Witness ==
    /\ pc["r1"] = "no_guests"
    /\ DOMAIN rows # {}
    /\ SelectableNow = {}
    /\ all_records["r1"] = <<>>

\* The (luma_guest_api_id, linkedin_handle) pairs of the selected guests
CandidateKeys(r) == {KeyOf(pending_guests[r][i]) : i \in 1..Len(pending_guests[r])}

\* C22: no step deletes a row; the table changes only in a committed upsert,
\* and that upsert creates or changes only rows keyed by the (guest, raw
\* handle) pairs of the guests the invocation selected, leaves one row for
\* each selected guest holding that guest's record, and leaves every other
\* row as it was.
C22_Frame ==
    [][/\ DOMAIN rows \subseteq DOMAIN rows'
       /\ rows' # rows =>
             \E r \in Runs : pc[r] = "built" /\ pc'[r] = "upserted" /\ success'[r]
       /\ \A r \in Runs : (pc[r] = "built" /\ pc'[r] = "upserted") =>
             /\ \A k \in DOMAIN rows' :
                   (k \notin DOMAIN rows \/ rows'[k] # rows[k]) => k \in CandidateKeys(r)
             /\ \A k \in DOMAIN rows \ CandidateKeys(r) : rows'[k] = rows[k]
             /\ success'[r] =>
                   /\ Cardinality(CandidateKeys(r)) = Len(pending_guests[r])
                   /\ CandidateKeys(r) \subseteq DOMAIN rows'
                   /\ \A i \in 1..Len(pending_guests[r]) :
                         \E j \in 1..Len(all_records[r]) :
                            /\ KeyOf(all_records[r][j]) = KeyOf(pending_guests[r][i])
                            /\ rows'[KeyOf(pending_guests[r][i])] = Columns(all_records[r][j])
      ]_vars

\* C22 witness: an invocation has upserted the record of the one guest it
\* selected, whose handle is not in canonical form, while the table holds
\* the row of another guest.
C22_Witness ==
    /\ pc["r1"] = "upserted" /\ success["r1"]
    /\ Len(pending_guests["r1"]) = 1
    /\ pending_guests["r1"][1].linkedin_handle = HandleAVariant
    /\ rows[KeyOf(pending_guests["r1"][1])] = Columns(all_records["r1"][1])
    /\ DOMAIN rows \ CandidateKeys("r1") # {}

\* The outcome of a call that fails with the error of that name
InvalidIdentifier == <<"InvalidIdentifier">>

\* C23: normalize_linkedin_handle called with the empty string fails with
\* InvalidIdentifier and returns no handle.
C23_EmptyInputFails ==
    (normal_form # NotCalled /\ Spelt(spelling) = <<>>) => normal_form = InvalidIdentifier

\* C24: once an invocation has called the scraper, the URL it sent for each
\* selected guest is https://www.linkedin.com followed by the normalized form
\* of the guest's handle, so guests whose handles normalize equally sent the
\* same URL.
C24_CanonicalUrlsSent ==
    \A r \in Runs : pc[r] \in {"built", "raised", "upserted"} =>
        /\ \A i \in 1..Len(pending_guests[r]) :
              linkedin_urls(pending_guests[r])[i]
                 = HttpsWww \o normalize_linkedin_handle(pending_guests[r][i].linkedin_handle)
        /\ \A i, k \in 1..Len(pending_guests[r]) :
              normalize_linkedin_handle(pending_guests[r][i].linkedin_handle)
                 = normalize_linkedin_handle(pending_guests[r][k].linkedin_handle)
              => linkedin_urls(pending_guests[r])[i] = linkedin_urls(pending_guests[r])[k]

\* C25: the guests an invocation has selected, and the records it has built
\* for the upsert, carry each (guest, handle) pair at most once.
C25_NoDuplicateKeys ==
    \A r \in Runs :
        /\ pc[r] \in {"fetched", "built"} => DistinctKeys(pending_guests[r])
        /\ pc[r] = "built" => DistinctKeys(all_records[r])

\* A row written by a match: payload present, no message, no retry state
FoundShape(row) ==
    /\ row.profile_found = TRUE
    /\ row.profile_data # NoneProfile
    /\ row.profile_fetch_message = "NULL"
    /\ row.retry_count = 0
    /\ row.last_retry_at = NULL_TS
    /\ row.next_retry_after = NULL_TS

\* A row written by a miss: no payload, message set, retry state set
FailureShape(row) ==
    /\ row.profile_found = FALSE
    /\ row.profile_data = NoneProfile
    /\ row.profile_fetch_message # "NULL"
    /\ row.retry_count >= 1
    /\ row.last_retry_at # NULL_TS
    /\ row.next_retry_after # NULL_TS
    /\ row.next_retry_after > row.last_retry_at

\* C26: under any interleaving of invocations every row of
\* luma.linkedin_profiles has the shape of a match or the shape of a miss.
C26_RowShape ==
    \A k \in DOMAIN rows : FoundShape(rows[k]) \/ FailureShape(rows[k])

\* C26 witness: an invocation has upserted a miss for a pair, and an
\* overlapping invocation has since overwritten that row with a match.
C26_Witness ==
    /\ pc["r1"] = "upserted" /\ success["r1"]
    /\ pc["r2"] = "upserted" /\ success["r2"]
    /\ \E i \in 1..Len(all_records["r1"]) :
          /\ all_records["r1"][i].profile_found = FALSE
          /\ all_records["r1"][i].retry_count >= 2
          /\ FoundShape(rows[KeyOf(all_records["r1"][i])])

====
